---------------------------- MODULE Spec2Model ----------------------------
(* Model of the doorbell detector (src/orangepi/doorbell_detector.py) and   *)
(* of its MQTT client (src/orangepi/mqtt_client.py).                        *)
(*                                                                          *)
(* The main thread of the detector is modelled as a program counter `pc`    *)
(* walking through start(), process_audio() and cleanup().  The library's   *)
(* network thread (connection callbacks), signal delivery and the clock    *)
(* are environment actions.  Time is counted in whole seconds.             *)
EXTENDS Integers, Sequences, FiniteSets, TLC

(***************************************************************************)
(* Bounds of the model.                                                    *)
(***************************************************************************)
\* capacity of the circular buffer (int(SAMPLE_RATE * BUFFER_DURATION), scaled down)
buffer_size == 3
\* number of samples the stream delivers per read (CHUNK_SIZE, scaled down)
CHUNK_SIZE == 2
\* the clock stops MaxTime seconds after it started
MaxTime == 10
\* the longest signal, segment and hop given to get_segments
MaxSignal == 5
MaxSegment == 3
MaxHop == 3
\* the longest reference recording given to process_dataset
MaxDoorbell == 3
\* the largest pool of segments given to generate_mixed_examples
MaxPool == 2
\* time_stretch changes the length of a segment by at most MaxStretch samples
MaxStretch == 1
\* the samples written to the circular buffer are counted up to MaxWritten
MaxWritten == 7
\* cap of the consecutive-detection counter
MaxConsecutive == 3
\* the clock of the whole-program specification stops MaxUptime seconds after the start
MaxUptime == 5
\* publish() is called at most MaxCalls times on a client
MaxCalls == 2
\* the clock runs at most MaxLate seconds past the entry and the deadline of connect()
MaxLate == 2

(***************************************************************************)
(* Program constants.                                                      *)
(***************************************************************************)
AMPLITUDE_THRESHOLD == 2300
\* DETECTION_THRESHOLD = 0.5, probabilities are counted in percent
DETECTION_THRESHOLD == 50
cooldown_period == 10
consecutive_required == 2
\* "if current_time - self.last_detection_time < 2"
DetectionWindow == 2
\* "timeout = time.time() + 5.0"
ConnectTimeout == 5
\* default qos of MQTTClient.publish
DefaultQos == 1

\* 16-bit samples the stream can deliver: the extremes and the values around the gate
Samples == {-32768, 0, 2300, 2301}
\* classifier outputs in percent: at the threshold and above it
Probabilities == {50, 60}
\* time.time() when the process starts: far more than the cooldown after the epoch
StartTime == cooldown_period

(***************************************************************************)
(* State.                                                                  *)
(***************************************************************************)
VARIABLES
    pc,                       \* position of the main thread
    running,                  \* DoorbellDetector.running
    model,                    \* DoorbellDetector.model is loaded
    audio,                    \* "None", "live" or "terminated" (PyAudio instance)
    stream,                   \* "None", "open" or "closed" (input stream)
    mqtt_client,              \* DoorbellDetector.mqtt_client is set
    start_result,             \* "none" until start() returns, then TRUE / FALSE
    was_running,              \* history: start() has set the running flag
    signal_seen,              \* history: where the last signal was handled
    audio_buffer,             \* the circular buffer, positions 1..buffer_size
    buffer_index,             \* write cursor, 0-based as in the code
    audio_chunk,              \* the chunk read in this iteration
    analysis,                 \* (is_detected, probability) returned by analyze_audio
    analysis_failed,          \* history: the last analyze_audio call caught an error
    consecutive_detections,
    last_detection_time,
    last_notification_time,
    client,                   \* MQTTClient.client is set (a paho handle exists)
    connected,                \* MQTTClient.connected
    loop_running,             \* the paho network loop thread is running
    timeout,                  \* connect(): the polling deadline
    connect_result,           \* "none" until connect() returns, then TRUE / FALSE
    connect_log,              \* the error connect() logged: "none", "timeout", "raised"
    ack,                      \* history: the first acknowledgment while connect() waited
    call,                     \* arguments of the publish() call in progress
    publish_result,           \* "none" until publish() returns, then TRUE / FALSE
    now,                      \* time.time()
    written,                  \* history: the last buffer_size samples written
    total_written,            \* history: the number of samples written, up to MaxWritten
    run_length,               \* history: length of the current run of detections
    run_time,                 \* history: time of the last detection of the run
    attempts,                 \* history: times at which a notification went on to publish
    audio_signal,             \* get_segments: the signal
    segment_samples,          \* get_segments: the length of a segment
    hop_samples,              \* get_segments: the hop between segments
    segments,                 \* get_segments: the returned list
    segment,                  \* apply_augmentations: the segment to augment
    augmented,                \* apply_augmentations: the returned list
    n_mfcc,                   \* extract_features: the number of MFCC coefficients
    n_mels,                   \* extract_features: the number of Mel bands
    feature_vector,           \* extract_features: the returned vector
    doorbell_segments,        \* generate_mixed_examples: the doorbell segments
    background_segments,      \* generate_mixed_examples: the segments to mix in
    max_mixed_samples,        \* generate_mixed_examples: <<>> for None, or <<maximum>>
    mixed_features,           \* generate_mixed_examples: the feature vectors made
    mixed_count,              \* generate_mixed_examples: their number
    iterations,               \* generate_mixed_examples: the iterations made
    path_exists,              \* process_dataset: os.path.exists(doorbell_path)
    audio_dirs,               \* process_dataset: the directories, each a list of files
    augment,                  \* process_dataset: the augment flag
    mix_background,           \* process_dataset: the mix_background flag
    max_background_samples,   \* process_dataset: <<>> for None, or <<maximum>>
    background_mix_split,     \* process_dataset: the split, in percent
    all_bg_segments,          \* process_dataset: the background segments gathered
    features,                 \* process_dataset: the feature vectors
    labels,                   \* process_dataset: their labels
    dirs_listed,              \* history: the number of os.listdir calls made
    dataset_result,           \* "none", "returned", or the name of the error raised
    trace                     \* history: the library calls made, newest last

bufVars  == <<audio_buffer, buffer_index, audio_chunk, written, total_written>>
detVars  == <<analysis, analysis_failed, consecutive_detections, last_detection_time, last_notification_time,
              run_length, run_time, attempts>>
lifeVars == <<running, model, audio, stream, mqtt_client, start_result, was_running,
              signal_seen>>
mqttVars == <<client, connected, loop_running, timeout, connect_result, connect_log, ack,
              call, publish_result>>
segVars  == <<audio_signal, hop_samples, segments>>
augVars  == <<augmented>>
featVars == <<n_mfcc, n_mels, feature_vector>>
mixVars  == <<doorbell_segments, background_segments, max_mixed_samples, mixed_features,
              mixed_count, iterations>>
dataVars == <<path_exists, audio_dirs, augment, mix_background, max_background_samples,
              background_mix_split, all_bg_segments, features, labels, dirs_listed,
              dataset_result>>
utilVars == <<segVars, segment_samples, segment, augVars, featVars, mixVars, dataVars>>

vars == <<pc, bufVars, detVars, lifeVars, mqttVars, utilVars, now, trace>>

(***************************************************************************)
(* Helpers.                                                                *)
(***************************************************************************)
Min(a, b) == IF a < b THEN a ELSE b

\* what a call returned, as the history holds it ("none": it has not returned)
Returned(b) == IF b THEN "True" ELSE "False"

RECURSIVE SeqMax(_)
SeqMax(s) == IF Len(s) = 1 THEN s[1]
             ELSE LET m == SeqMax(Tail(s)) IN IF s[1] > m THEN s[1] ELSE m

\* sequences over S of length lo..hi
SeqsOf(S, lo, hi) == UNION {[1..n -> S] : n \in lo..hi}

\* the last n elements of s (all of s when it is shorter)
LastN(s, n) == IF Len(s) <= n THEN s ELSE SubSeq(s, Len(s) - n + 1, Len(s))

\* a value stored in an int16 array wraps modulo 2^16
Wrap16(x) == ((x + 32768) % 65536) - 32768

\* np.abs on an int16 array: the negation is done in 16 bits
Abs16(x) == IF x < 0 THEN Wrap16(0 - x) ELSE x

\* np.max(np.abs(audio_chunk))
MaxAmplitude(chunk) == SeqMax([i \in 1..Len(chunk) |-> Abs16(chunk[i])])

\* max_amplitude > AMPLITUDE_THRESHOLD
GateOpen(chunk) == MaxAmplitude(chunk) > AMPLITUDE_THRESHOLD

(***************************************************************************)
(* The circular buffer (process_audio).  The code's indices are 0-based,   *)
(* audio_buffer[k] of the code is buf[k + 1] here.                         *)
(***************************************************************************)
\* end_index = min(buffer_index + len(audio_chunk), buffer_size)
EndIndex(idx, chunk) == Min(idx + Len(chunk), buffer_size)

\* self.audio_buffer[buffer_index:end_index] = audio_chunk[:end_index - buffer_index]
CopyHead(buf, idx, chunk) ==
    [k \in 1..buffer_size |->
        IF idx < k /\ k <= EndIndex(idx, chunk) THEN chunk[k - idx] ELSE buf[k]]

\* remaining = len(audio_chunk) - (end_index - buffer_index)
Remaining(idx, chunk) == Len(chunk) - (EndIndex(idx, chunk) - idx)

\* mutant: the samples that do not fit before the end of the buffer are dropped
WriteBuffer_HeadOnly(buf, idx, chunk) == CopyHead(buf, idx, chunk)

\* the buffer after the chunk is written at the cursor
WriteBuffer(buf, idx, chunk) ==
    LET head == CopyHead(buf, idx, chunk)
        rem  == Remaining(idx, chunk)
    IN  IF EndIndex(idx, chunk) - idx < Len(chunk)
        THEN \* self.audio_buffer[:remaining] = audio_chunk[-(remaining):]
             [k \in 1..buffer_size |->
                IF k <= rem THEN chunk[Len(chunk) - rem + k] ELSE head[k]]
        ELSE head

\* mutant: the cursor is not moved past the samples written at the front
WriteIndex_Wrapped0(idx, chunk) == EndIndex(idx, chunk) % buffer_size

\* mutant: the cursor is not reduced modulo the capacity
WriteIndex_NoModulo(idx, chunk) ==
    IF EndIndex(idx, chunk) - idx < Len(chunk)
    THEN Remaining(idx, chunk)
    ELSE EndIndex(idx, chunk)

\* the cursor after the chunk is written
WriteIndex(idx, chunk) ==
    IF EndIndex(idx, chunk) - idx < Len(chunk)
    THEN Remaining(idx, chunk)
    ELSE EndIndex(idx, chunk) % buffer_size

\* np.concatenate([audio_buffer[buffer_index:], audio_buffer[:buffer_index]])
AnalysisBuffer(buf, idx) == SubSeq(buf, idx + 1, buffer_size) \o SubSeq(buf, 1, idx)

\* np.max(np.abs(audio_data)), the divisor of the normalization in the runtime
\* extract_features: audio_data is the int16 window when the divisor is computed
NormalizationPeak(audio_data) == MaxAmplitude(audio_data)

\* np.zeros(buffer_size, dtype=np.int16)
Zeros == [k \in 1..buffer_size |-> 0]


(***************************************************************************)
(* Inputs of the model.                                                    *)
(***************************************************************************)
\* chunks the stream can deliver (np.frombuffer(data, dtype=np.int16))
AllChunks == SeqsOf(Samples, 1, CHUNK_SIZE)
\* every chunk passes the amplitude gate
LoudChunks == {[i \in 1..CHUNK_SIZE |-> 2301]}

\* outcome of feature extraction + classifier: it raised, or a probability
Outcomes == {[ok |-> FALSE, p |-> 0]} \cup {[ok |-> TRUE, p |-> q] : q \in Probabilities}
\* the classifier detects the doorbell in every window
Detections == {o \in Outcomes : o.ok /\ o.p > DETECTION_THRESHOLD}
\* the classifier does not exceed the threshold
QuietOutcomes == {[ok |-> TRUE, p |-> 50]}

(***************************************************************************)
(* analyze_audio: the debounce.                                            *)
(***************************************************************************)
\* is_detected = prediction > DETECTION_THRESHOLD
IsDetected(p) == p > DETECTION_THRESHOLD

\* mutant: a detection exactly 2 s after the previous one still extends the run
NextConsecutive_Within2(cons, last, t) ==
    IF t - last <= DetectionWindow THEN cons + 1 ELSE 1

\* the consecutive-detection counter after an above-threshold prediction at time t
NextConsecutive(cons, last, t) ==
    IF t - last < DetectionWindow THEN cons + 1 ELSE 1

\* mutant: a failed analysis ends the run of detections
ConsecutiveAfterFailure_Reset(cons) == 0

\* the consecutive-detection counter after an analysis that failed: "return False, 0.0"
\* is reached before the counter is touched
ConsecutiveAfterFailure(cons) == cons

\* if self.consecutive_detections >= self.consecutive_required
Actionable(cons) == cons >= consecutive_required

\* if current_time - self.last_notification_time < self.cooldown_period
InCooldown(t, last) == t - last < cooldown_period

(***************************************************************************)
(* process_audio: the processing loop, one action per step of an iteration *)
(***************************************************************************)
\* mutant: the loop does not look at the running flag
LoopCheck_Forever ==
    /\ pc = "loop"
    /\ pc' = "read"
    /\ UNCHANGED <<utilVars, bufVars, detVars, lifeVars, mqttVars, now, trace>>

\* while self.running:
LoopCheck ==
    /\ pc = "loop"
    /\ pc' = IF running THEN "read" ELSE "cleanup"
    /\ UNCHANGED <<utilVars, bufVars, detVars, lifeVars, mqttVars, now, trace>>

\* stream.read returns a chunk; it is written into the circular buffer and gated
ReadChunk(Chunks) ==
    /\ pc = "read"
    /\ \E chunk \in Chunks :
        /\ audio_chunk' = chunk
        /\ audio_buffer' = WriteBuffer(audio_buffer, buffer_index, chunk)
        /\ buffer_index' = WriteIndex(buffer_index, chunk)
        /\ written' = LastN(written \o chunk, buffer_size)
        /\ total_written' = Min(total_written + Len(chunk), MaxWritten)
        /\ pc' = IF GateOpen(chunk) THEN "analyze" ELSE "sleep"
    /\ UNCHANGED <<utilVars, detVars, lifeVars, mqttVars, now, trace>>

\* mutant: an error in the loop leaves start() without the cleanup
AfterLoopError_NoCleanup == "return"

\* where start() goes on when process_audio ends with an error: the error is
\* logged by process_audio, which returns, and "finally" runs cleanup()
AfterLoopError == "cleanup"

\* stream.read (or anything else in the loop body) raises
ReadFails ==
    /\ pc = "read"
    /\ pc' = AfterLoopError
    /\ UNCHANGED <<utilVars, bufVars, detVars, lifeVars, mqttVars, now, trace>>

\* analyze_audio(analysis_buffer) and "if is_detected:" of process_audio
AnalyzeAudio(Outs) ==
    /\ pc = "analyze"
    /\ \E o \in Outs :
        IF ~o.ok
        THEN \* extract_features returned None or predict raised
             /\ analysis' = [is_detected |-> FALSE, probability |-> 0]
             /\ analysis_failed' = TRUE
             /\ consecutive_detections' = ConsecutiveAfterFailure(consecutive_detections)
             /\ pc' = "sleep"
             /\ UNCHANGED <<last_detection_time, run_length, run_time>>
        ELSE IF IsDetected(o.p)
        THEN LET cons == NextConsecutive(consecutive_detections, last_detection_time, now)
             IN  /\ cons <= MaxConsecutive
                 /\ consecutive_detections' = cons
                 /\ last_detection_time' = now
                 /\ analysis' = [is_detected |-> Actionable(cons), probability |-> o.p]
                 /\ analysis_failed' = FALSE
                 /\ pc' = IF Actionable(cons) THEN "notify" ELSE "sleep"
                 /\ run_length' = IF run_length > 0 /\ now - run_time < 2
                                  THEN run_length + 1 ELSE 1
                 /\ run_time' = now
        ELSE /\ consecutive_detections' = 0
             /\ analysis' = [is_detected |-> FALSE, probability |-> o.p]
             /\ analysis_failed' = FALSE
             /\ pc' = "sleep"
             /\ run_length' = 0
             /\ run_time' = 0
             /\ UNCHANGED last_detection_time
    /\ UNCHANGED <<utilVars, bufVars, last_notification_time, attempts, lifeVars, mqttVars,
                   now, trace>>

\* time.sleep(0.01)
Sleep ==
    /\ pc = "sleep"
    /\ pc' = "loop"
    /\ UNCHANGED <<utilVars, bufVars, detVars, lifeVars, mqttVars, now, trace>>

(***************************************************************************)
(* MQTTClient.publish and the module-level send_notification helper.       *)
(***************************************************************************)
\* MQTT_TOPIC, the configured topic
MQTT_TOPIC == "home/doorbell/detect"

\* mutant: the override of the topic is ignored
EffectiveTopic_Configured(t) == MQTT_TOPIC

\* if topic is None: topic = self.topic
EffectiveTopic(t) == IF t = "None" THEN MQTT_TOPIC ELSE t

\* "if self.client and self.connected" of publish(); the client the helper
\* constructs has no handle and is not connected
LiveSession(c) == ~c.fresh /\ client /\ connected

\* an entry of the history
Event(name, topic, qos, retain, ok) ==
    [op |-> name, topic |-> topic, qos |-> qos, retain |-> retain, ok |-> ok]

\* the transport call publish() makes for the call c; it raises when ok is FALSE
TransportCall(c, ok) ==
    Event(IF LiveSession(c) THEN "client.publish" ELSE "publish.single",
          EffectiveTopic(c.topic), c.qos, c.retain, ok)

\* mutant: publish() does not return after the publish on the session and goes on
\* to the one-shot publish
PublishCalls_FallThrough(c, ok) ==
    IF LiveSession(c)
    THEN <<Event("client.publish", EffectiveTopic(c.topic), c.qos, c.retain, TRUE),
           Event("publish.single", EffectiveTopic(c.topic), c.qos, c.retain, ok)>>
    ELSE <<TransportCall(c, ok)>>

\* the transport calls of one publish(): client.publish and "return True", or
\* publish.single; a call that raises ends the try block
PublishCalls(c, ok) == <<TransportCall(c, ok)>>

\* mutant: publish() reports success whatever the transport call did
PublishReturns_Always(ok) == TRUE

\* publish() returns True unless the transport call raised
PublishReturns(ok) == ok

\* the body of publish(), entered with the arguments `call`
Publish(next) ==
    /\ pc = "publish"
    /\ \E ok \in BOOLEAN :
        /\ trace' = trace \o PublishCalls(call, ok)
        /\ publish_result' = Returned(PublishReturns(ok))
    /\ pc' = next
    /\ UNCHANGED <<utilVars, bufVars, detVars, lifeVars, client, connected, loop_running,
                   timeout, connect_result, connect_log, ack, call, now>>

(***************************************************************************)
(* DoorbellDetector.send_notification.                                     *)
(***************************************************************************)
\* "if self.mqtt_client and self.mqtt_client.connected": publish on the detector's
\* client, else call the helper, which publishes on a fresh client
DetectorCall ==
    [fresh |-> ~(mqtt_client /\ connected), topic |-> "None",
     qos |-> DefaultQos, retain |-> FALSE]

\* mutant: the time of the attempt is not recorded
StampNotification_Forgotten(last, t) == last

\* the last-notification time after a notification that passed the cooldown at t
StampNotification(last, t) == t

SendNotification ==
    /\ pc = "notify"
    /\ IF InCooldown(now, last_notification_time)
       THEN \* "Notification in cooldown period, skipping"
            /\ pc' = "sleep"
            /\ UNCHANGED <<last_notification_time, attempts, call, publish_result>>
       ELSE /\ last_notification_time' = StampNotification(last_notification_time, now)
            /\ call' = DetectorCall
            /\ publish_result' = "none"
            /\ attempts' = Append(attempts, now)
            /\ pc' = "publish"
    /\ UNCHANGED <<utilVars, bufVars, analysis, analysis_failed, consecutive_detections,
                   last_detection_time, run_length, run_time, lifeVars, client, connected,
                   loop_running, timeout, connect_result, connect_log, ack, now, trace>>

(***************************************************************************)
(* MQTTClient.connect, one action per step.                                *)
(***************************************************************************)
\* mutant: the network loop is started before the connection is opened
ConnectOpen_LoopFirst(next) ==
    /\ pc = "connect"
    /\ client' = TRUE
    /\ loop_running' = TRUE
    /\ \/ /\ connect_result' = Returned(FALSE)
          /\ connect_log' = "raised"
          /\ pc' = next
          /\ UNCHANGED timeout
       \/ /\ timeout' = now + ConnectTimeout
          /\ pc' = "poll"
          /\ UNCHANGED <<connect_result, connect_log>>
    /\ UNCHANGED <<utilVars, bufVars, detVars, lifeVars, connected, ack, call, publish_result, now,
                   trace>>

\* mqtt.Client(...), client.connect(broker, port, 60), client.loop_start(): opening
\* the connection raises, or the network loop is started and the deadline is set
ConnectOpen(next) ==
    /\ pc = "connect"
    /\ client' = TRUE
    /\ \/ /\ connect_result' = Returned(FALSE)
          /\ connect_log' = "raised"
          /\ pc' = next
          /\ UNCHANGED <<loop_running, timeout>>
       \/ /\ loop_running' = TRUE
          /\ timeout' = now + ConnectTimeout
          /\ pc' = "poll"
          /\ UNCHANGED <<connect_result, connect_log>>
    /\ UNCHANGED <<utilVars, bufVars, detVars, lifeVars, connected, ack, call, publish_result, now,
                   trace>>

\* mutant: the polling has no deadline
KeepPolling_NoDeadline == ~connected

\* while not self.connected and time.time() < timeout:
KeepPolling == ~connected /\ now < timeout

ConnectPoll ==
    /\ pc = "poll"
    /\ pc' = IF KeepPolling THEN "poll_sleep" ELSE "poll_done"
    /\ UNCHANGED <<utilVars, bufVars, detVars, lifeVars, mqttVars, now, trace>>

\* time.sleep(0.1)
ConnectSleep ==
    /\ pc = "poll_sleep"
    /\ pc' = "poll"
    /\ UNCHANGED <<utilVars, bufVars, detVars, lifeVars, mqttVars, now, trace>>

\* if not self.connected: "Connection timeout", return False; return True
ConnectReturn(next) ==
    /\ pc = "poll_done"
    /\ connect_result' = Returned(connected)
    /\ connect_log' = IF connected THEN "none" ELSE "timeout"
    /\ pc' = next
    /\ UNCHANGED <<utilVars, bufVars, detVars, lifeVars, client, connected, loop_running, timeout,
                   ack, call, publish_result, now, trace>>

(***************************************************************************)
(* The callbacks paho runs on its network thread while the loop runs.      *)
(***************************************************************************)
\* on_connect(client, userdata, flags, rc): rc 0 is success, 5 is "not authorised"
OnConnect ==
    /\ loop_running
    /\ \E rc \in {0, 5} :
        /\ connected' = (rc = 0)
        /\ ack' = IF rc = 0 /\ ack = "none" /\ pc \in {"poll", "poll_sleep", "poll_done"}
                  THEN (IF now <= timeout THEN "in_time" ELSE "late")
                  ELSE ack
    /\ UNCHANGED <<utilVars, pc, bufVars, detVars, lifeVars, client, loop_running, timeout,
                   connect_result, connect_log, call, publish_result, now, trace>>

\* on_disconnect(client, userdata, rc)
OnDisconnect ==
    /\ loop_running
    /\ connected' = FALSE
    /\ UNCHANGED <<utilVars, pc, bufVars, detVars, lifeVars, client, loop_running, timeout,
                   connect_result, connect_log, ack, call, publish_result, now, trace>>

(***************************************************************************)
(* DoorbellDetector.start, signal_handler and cleanup.                     *)
(***************************************************************************)
\* a library call that is not a publish
LibCall(name) == Event(name, "None", 0, FALSE, TRUE)

\* signal.signal(SIGINT, ...), signal.signal(SIGTERM, ...)
InstallHandlers ==
    /\ pc = "start"
    /\ pc' = "load_model"
    /\ UNCHANGED <<utilVars, bufVars, detVars, lifeVars, mqttVars, now, trace>>

\* if not self.load_model(): return False
LoadModel ==
    /\ pc = "load_model"
    /\ \/ /\ model' = TRUE
          /\ pc' = "init_audio"
          /\ UNCHANGED start_result
       \/ /\ start_result' = Returned(FALSE)
          /\ pc' = "done"
          /\ UNCHANGED model
    /\ UNCHANGED <<utilVars, bufVars, detVars, running, audio, stream, mqtt_client, was_running,
                   signal_seen, mqttVars, now, trace>>

\* mutant: start() goes on after a failed audio initialization
AfterAudioFailure_Continue == "init_mqtt"

\* where start() goes on after a failed audio initialization: "return False"
AfterAudioFailure == "done"

\* if not self.initialize_audio(): return False.  PyAudio() raises, or the device
\* listing or audio.open raises after PyAudio() was created, or the stream is open
InitializeAudio ==
    /\ pc = "init_audio"
    /\ \/ /\ start_result' = Returned(FALSE)
          /\ pc' = AfterAudioFailure
          /\ UNCHANGED <<audio, stream>>
       \/ /\ audio' = "live"
          /\ start_result' = Returned(FALSE)
          /\ pc' = AfterAudioFailure
          /\ UNCHANGED stream
       \/ /\ audio' = "live"
          /\ stream' = "open"
          /\ pc' = "init_mqtt"
          /\ UNCHANGED start_result
    /\ UNCHANGED <<utilVars, bufVars, detVars, running, model, mqtt_client, was_running,
                   signal_seen, mqttVars, now, trace>>

\* self.initialize_mqtt(): self.mqtt_client = MQTTClient(), then connect()
InitializeMqtt ==
    /\ pc = "init_mqtt"
    /\ mqtt_client' = TRUE
    /\ pc' = "connect"
    /\ UNCHANGED <<utilVars, bufVars, detVars, running, model, audio, stream, start_result,
                   was_running, signal_seen, mqttVars, now, trace>>

\* self.running = True
SetRunning ==
    /\ pc = "set_running"
    /\ running' = TRUE
    /\ was_running' = TRUE
    /\ pc' = "process"
    /\ UNCHANGED <<utilVars, bufVars, detVars, model, audio, stream, mqtt_client, start_result,
                   signal_seen, mqttVars, now, trace>>

\* process_audio up to the loop: the stream check and the zeroed buffer
ProcessAudio ==
    /\ pc = "process"
    /\ IF stream = "None"
       THEN /\ pc' = "cleanup"
            /\ UNCHANGED <<audio_buffer, buffer_index>>
       ELSE /\ audio_buffer' = Zeros
            /\ buffer_index' = 0
            /\ pc' = "loop"
    /\ UNCHANGED <<utilVars, audio_chunk, written, total_written, detVars, lifeVars, mqttVars, now, trace>>

\* the phase of start() a position of the main thread belongs to
Phase(p) ==
    IF p \in {"load_model", "init_audio", "init_mqtt", "connect", "poll", "poll_sleep",
              "poll_done", "set_running"} THEN "startup"
    ELSE IF p \in {"process", "loop", "read", "analyze", "notify", "publish", "sleep"}
    THEN "running"
    ELSE "stopping"

\* signal_handler(sig, frame), once the handlers are installed
SignalHandler ==
    /\ pc \notin {"start", "done"}
    /\ running' = FALSE
    /\ signal_seen' = Phase(pc)
    /\ UNCHANGED <<utilVars, pc, bufVars, detVars, model, audio, stream, mqtt_client, start_result,
                   was_running, mqttVars, now, trace>>

\* mutant: disconnect() does not look at the handle and the flag
DisconnectCalls_Always ==
    <<LibCall("client.loop_stop"), LibCall("client.disconnect")>>

\* MQTTClient.disconnect: the library calls it makes
DisconnectCalls ==
    IF client /\ connected
    THEN <<LibCall("client.loop_stop"), LibCall("client.disconnect")>>
    ELSE <<>>

\* cleanup(): the calls it makes, in order
CleanupCalls ==
    (IF stream # "None"
     THEN <<LibCall("stream.stop_stream"), LibCall("stream.close")>> ELSE <<>>)
    \o (IF audio # "None" THEN <<LibCall("audio.terminate")>> ELSE <<>>)
    \o (IF mqtt_client
        THEN <<LibCall("mqtt_client.disconnect")>> \o DisconnectCalls ELSE <<>>)

Cleanup ==
    /\ pc = "cleanup"
    /\ trace' = trace \o CleanupCalls
    /\ stream' = IF stream # "None" THEN "closed" ELSE stream
    /\ audio' = IF audio # "None" THEN "terminated" ELSE audio
    /\ loop_running' = IF mqtt_client /\ client /\ connected THEN FALSE ELSE loop_running
    /\ pc' = "return"
    /\ UNCHANGED <<utilVars, bufVars, detVars, running, model, mqtt_client, start_result,
                   was_running, signal_seen, client, connected, timeout, connect_result,
                   connect_log, ack, call, publish_result, now>>

\* return True
Return ==
    /\ pc = "return"
    /\ start_result' = Returned(TRUE)
    /\ pc' = "done"
    /\ UNCHANGED <<utilVars, bufVars, detVars, running, model, audio, stream, mqtt_client,
                   was_running, signal_seen, mqttVars, now, trace>>

(***************************************************************************)
(* Environment.                                                            *)
(***************************************************************************)
\* a second passes
Tick(limit) ==
    /\ now < limit
    /\ now' = now + 1
    /\ UNCHANGED <<utilVars, pc, bufVars, detVars, lifeVars, mqttVars, trace>>

(***************************************************************************)
(* States of the program from which the specifications start.              *)
(***************************************************************************)
\* no function of the training utilities has been called
NoSegments == audio_signal = <<>> /\ hop_samples = 0 /\ segments = <<>>
NoAugment == augmented = <<>>
NoFeatures == n_mfcc = 0 /\ n_mels = 0 /\ feature_vector = <<>>

NoMixing ==
    /\ doorbell_segments = <<>> /\ background_segments = <<>> /\ max_mixed_samples = <<>>
    /\ mixed_features = <<>> /\ mixed_count = 0 /\ iterations = 0

NoDataset ==
    /\ path_exists = FALSE /\ audio_dirs = <<>> /\ augment = FALSE
    /\ mix_background = FALSE /\ max_background_samples = <<>>
    /\ background_mix_split = 0 /\ all_bg_segments = <<>>
    /\ features = <<>> /\ labels = <<>> /\ dirs_listed = 0 /\ dataset_result = "none"

NoTraining ==
    /\ NoSegments /\ NoAugment /\ NoFeatures /\ NoMixing /\ NoDataset
    /\ segment_samples = 0 /\ segment = <<>>

NoCall == [fresh |-> FALSE, topic |-> "None", qos |-> DefaultQos, retain |-> FALSE]

\* DoorbellDetector.__init__ and MQTTClient.__init__
Created ==
    /\ running = FALSE /\ model = FALSE /\ audio = "None" /\ stream = "None"
    /\ mqtt_client = FALSE /\ start_result = "none"
    /\ was_running = FALSE /\ signal_seen = "none"
    /\ audio_buffer = <<>> /\ buffer_index = 0 /\ audio_chunk = <<>> /\ written = <<>>
    /\ total_written = 0
    /\ analysis = [is_detected |-> FALSE, probability |-> 0]
    /\ analysis_failed = FALSE
    /\ consecutive_detections = 0 /\ last_detection_time = 0
    /\ last_notification_time = 0
    /\ run_length = 0 /\ run_time = 0 /\ attempts = <<>>
    /\ client = FALSE /\ connected = FALSE /\ loop_running = FALSE
    /\ timeout = 0 /\ connect_result = "none" /\ connect_log = "none" /\ ack = "none"
    /\ call = NoCall
    /\ publish_result = "none"
    /\ now = StartTime /\ trace = <<>>

\* process_audio is about to test "while self.running" for the first time: start()
\* loaded the model and opened the stream; connect() returned `conn`, at once: with a
\* session, or because opening the connection raised
Processing(conn) ==
    /\ pc = "loop"
    /\ running = TRUE /\ model = TRUE /\ audio = "live" /\ stream = "open"
    /\ mqtt_client = TRUE /\ start_result = "none"
    /\ was_running = TRUE /\ signal_seen = "none"
    /\ audio_buffer = Zeros /\ buffer_index = 0 /\ audio_chunk = <<>> /\ written = <<>>
    /\ total_written = 0
    /\ analysis = [is_detected |-> FALSE, probability |-> 0]
    /\ analysis_failed = FALSE
    /\ consecutive_detections = 0 /\ last_detection_time = 0
    /\ last_notification_time = 0
    /\ run_length = 0 /\ run_time = 0 /\ attempts = <<>>
    /\ client = TRUE /\ connected = conn /\ loop_running = conn
    /\ timeout = IF conn THEN StartTime + ConnectTimeout ELSE 0
    /\ connect_result = Returned(conn) /\ connect_log = IF conn THEN "none" ELSE "raised"
    /\ ack = IF conn THEN "in_time" ELSE "none"
    /\ call = NoCall
    /\ publish_result = "none"
    /\ now = StartTime /\ trace = <<>>
    /\ NoTraining

(***************************************************************************)
(* SpecBuffer: the circular buffer and the amplitude gate, over every      *)
(* chunk of 1..CHUNK_SIZE samples, with a classifier that stays below the  *)
(* threshold.                                                              *)
(***************************************************************************)
InitBuffer == Processing(FALSE)

NextBuffer ==
    \/ LoopCheck
    \/ ReadChunk(AllChunks)
    \/ AnalyzeAudio(QuietOutcomes)
    \/ Sleep

SpecBuffer == InitBuffer /\ [][NextBuffer]_vars

\* C1: once at least buffer_size samples have been written, the analysis window
\* read out from the cursor is exactly the last buffer_size samples written, in order
C1_WindowIsLastSamples ==
    Len(written) = buffer_size =>
        AnalysisBuffer(audio_buffer, buffer_index) = written

\* a chunk has just been written across the end of the buffer, after it was filled
C1_Witness ==
    /\ pc \in {"analyze", "sleep"}
    /\ Len(written) = buffer_size
    /\ buffer_index > 0 /\ buffer_index < Len(audio_chunk)
    /\ \E i, j \in 1..buffer_size : written[i] # written[j]

\* C20: after any number of chunk writes the buffer has its capacity of elements,
\* the write cursor is at least 0 and below the capacity, and it equals the number
\* of samples written modulo the capacity
C20_CursorIsTotalModCapacity ==
    /\ Len(audio_buffer) = buffer_size
    /\ 0 <= buffer_index /\ buffer_index < buffer_size
    /\ total_written < MaxWritten => buffer_index = total_written % buffer_size

\* a chunk has just filled the buffer exactly to its end, the second time round
C20_Witness ==
    /\ pc \in {"analyze", "sleep"}
    /\ total_written = 2 * buffer_size
    /\ total_written < MaxWritten
    /\ Len(audio_chunk) = CHUNK_SIZE
    /\ buffer_index = 0

\* the largest absolute value of a sample of the chunk, as a mathematical integer
PeakAbs(chunk) == SeqMax([i \in 1..Len(chunk) |-> IF chunk[i] < 0 THEN 0 - chunk[i] ELSE chunk[i]])

\* C8: a chunk that was just read goes on to analysis if and only if its peak
\* absolute value, as a mathematical integer, is strictly above 2300
C8_GateIsPeakAboveThreshold ==
    [][pc = "read" /\ pc' \in {"analyze", "sleep"} =>
          (pc' = "analyze" <=> PeakAbs(audio_chunk') > 2300)]_vars

\* C26: in a cycle that passed the amplitude gate, the analysis window read out of
\* the circular buffer ends with the chunk just read; its peak absolute value is at
\* least the chunk's and strictly above 2300, as a mathematical integer and as numpy
\* computes it on 16-bit samples, so the divisor of the peak normalization is not 0
C26_WindowIsNeverSilent ==
    pc = "analyze" =>
        LET window == AnalysisBuffer(audio_buffer, buffer_index)
        IN  /\ LastN(window, Len(audio_chunk)) = audio_chunk
            /\ PeakAbs(window) >= PeakAbs(audio_chunk)
            /\ PeakAbs(window) > 2300
            /\ MaxAmplitude(window) >= MaxAmplitude(audio_chunk)
            /\ MaxAmplitude(window) > 2300
            /\ NormalizationPeak(window) # 0

\* a chunk written across the end of the buffer passed the gate on one sample; the
\* rest of the window is a -32768, whose 16-bit absolute value is negative, and a 0
C26_Witness ==
    /\ pc = "analyze"
    /\ total_written > buffer_size
    /\ buffer_index > 0 /\ buffer_index < Len(audio_chunk)
    /\ audio_chunk = <<2301, -32768>>
    /\ written = <<0, 2301, -32768>>

(***************************************************************************)
(* SpecDetect: debounce and cooldown.  The processing loop runs against    *)
(* the clock, with every classifier outcome, on a detector whose messaging *)
(* connect succeeded or failed; the connection state does not change.      *)
(***************************************************************************)
InitDetect == \E conn \in BOOLEAN : Processing(conn)

NextDetect ==
    \/ LoopCheck
    \/ ReadChunk(LoudChunks)
    \/ AnalyzeAudio(Outcomes)
    \/ SendNotification
    \/ Publish("sleep")
    \/ Sleep
    \/ Tick(StartTime + MaxTime)

SpecDetect == InitDetect /\ [][NextDetect]_vars

\* C2: the latest analysis is actionable if and only if its probability is strictly
\* above the threshold and it is at least the second of a run of above-threshold
\* predictions, each less than 2 s after the previous one, with no below-threshold
\* prediction in between
C2_ActionableIffSecondOfRun ==
    analysis.is_detected <=> (analysis.probability > 50 /\ run_length >= 2)

\* the second of two detections less than 2 s apart was just found actionable
C2_Witness ==
    /\ pc = "notify"
    /\ analysis.is_detected
    /\ run_length = 2

\* C3: two publish attempts are at least 10 s apart, and an actionable detection
\* less than 10 s after the previous attempt is skipped: nothing is published and
\* the last-notification time stays, whether the previous attempt succeeded or not
C3_Cooldown ==
    [][/\ \A i, j \in 1..Len(attempts') :
            i < j => attempts'[j] - attempts'[i] >= 10
       /\ (/\ pc = "notify" /\ pc' # "notify"
           /\ attempts # <<>>
           /\ now - attempts[Len(attempts)] < 10)
          => /\ pc' = "sleep"
             /\ UNCHANGED <<attempts, trace, last_notification_time>>]_vars

\* a third detection of a run was skipped in the cooldown of an attempt that failed
C3_Witness ==
    /\ pc = "sleep"
    /\ analysis.is_detected /\ run_length = 3
    /\ Len(attempts) = 1 /\ Len(trace) = 1
    /\ publish_result = "False"

\* C21: an analysis that fails returns (not detected, probability 0) to the loop,
\* which goes on to its sleep and from there to the next chunk without attempting a
\* notification; the consecutive-detection counter, the last-detection time and the
\* last-notification time are left as they were
C21_AnalysisFailureAbsorbed ==
    /\ [](analysis_failed =>
            /\ analysis = [is_detected |-> FALSE, probability |-> 0]
            /\ pc \in {"sleep", "loop", "read", "analyze"})
    /\ [][(pc = "analyze" /\ pc' # "analyze" /\ analysis_failed') =>
            /\ pc' = "sleep"
            /\ UNCHANGED <<consecutive_detections, last_detection_time,
                           last_notification_time, attempts, trace>>]_vars

\* the analysis failed after a notification went out, and the next chunk was read
C21_Witness ==
    /\ pc = "analyze"
    /\ analysis_failed
    /\ consecutive_detections = 2
    /\ Len(attempts) = 1

(***************************************************************************)
(* Spec: the whole detector, from start() to its return, with signals, the *)
(* connection callbacks and the clock.                                     *)
(***************************************************************************)
Init == pc = "start" /\ Created /\ NoTraining

Next ==
    \/ InstallHandlers
    \/ LoadModel
    \/ InitializeAudio
    \/ InitializeMqtt
    \/ ConnectOpen("set_running")
    \/ ConnectPoll
    \/ ConnectSleep
    \/ ConnectReturn("set_running")
    \/ SetRunning
    \/ ProcessAudio
    \/ LoopCheck
    \/ ReadChunk(LoudChunks)
    \/ ReadFails
    \/ AnalyzeAudio(Detections)
    \/ SendNotification
    \/ Publish("sleep")
    \/ Sleep
    \/ Cleanup
    \/ Return
    \/ SignalHandler
    \/ OnConnect
    \/ OnDisconnect
    \/ Tick(StartTime + MaxUptime)

Spec == Init /\ [][Next]_vars


\* the positions in the history of the calls named op
CallsOf(op) == {i \in 1..Len(trace) : trace[i].op = op}

\* C5: start() reports failure if and only if the classifier load or the audio
\* initialization failed; then the running flag was never set and no chunk was read,
\* a failed load leaves audio and messaging uninitialized, a failed audio
\* initialization leaves messaging uninitialized; and a failed messaging connect does
\* not keep the detector from running
C5_StartupGating ==
    pc = "done" =>
        /\ start_result = "False" <=> (~model \/ stream = "None")
        /\ start_result = "False" =>
              /\ ~was_running /\ ~running
              /\ written = <<>> /\ audio_chunk = <<>>
              /\ ~mqtt_client /\ ~client /\ connect_result = "none"
        /\ ~model => audio = "None" /\ stream = "None"
        /\ connect_result = "False" => was_running /\ start_result = "True"

\* the audio initialization failed after the audio subsystem was created
C5_Witness ==
    /\ pc = "done"
    /\ start_result = "False"
    /\ model /\ audio = "live" /\ stream = "None"

C9_FailedConnectNeverUsesSession ==
    connect_result = "False" => CallsOf("client.publish") = {}

\* C9: if the startup connect failed because opening the connection raised, the
\* network loop never runs, the connected flag stays false and every notification
\* goes through the one-shot publish; a notification on the persistent session
\* after a failed connect happens only after a timeout
C9_RaisedConnectStaysOneShot ==
    /\ connect_log = "raised" =>
          /\ ~loop_running /\ ~connected
          /\ CallsOf("client.publish") = {}
    /\ (connect_result = "False" /\ CallsOf("client.publish") # {}) =>
          connect_log = "timeout"

\* a notification went through the one-shot publish after the connect raised
C9_Witness ==
    /\ connect_log = "raised"
    /\ CallsOf("publish.single") # {}

\* C23 as stated: once a signal was handled, at any moment after start() installed
\* the handlers, the startup included, the processing loop begins no further read:
\* it exits or never runs, without a second signal
C23_SignalStopsDetector ==
    [][(signal_seen # "none" /\ pc # "read") => pc' # "read"]_vars

\* C25 as stated: whenever start() has returned, with success or failure, no audio
\* subsystem instance that was created is still live and no stream that was opened
\* is still open
C25_NoAudioResourceOutlivesStart ==
    pc = "done" => (audio # "live" /\ stream # "open")

(***************************************************************************)
(* SpecNotify: the processing loop of a detector whose classifier detects  *)
(* the doorbell in every window, against the clock, while the callbacks    *)
(* flip the connected flag of its client.                                  *)
(***************************************************************************)
InitNotify == \E conn \in BOOLEAN : Processing(conn)

NextNotify ==
    \/ LoopCheck
    \/ ReadChunk(LoudChunks)
    \/ AnalyzeAudio(Detections)
    \/ SendNotification
    \/ Publish("sleep")
    \/ Sleep
    \/ OnConnect
    \/ OnDisconnect
    \/ Tick(StartTime + MaxTime)

SpecNotify == InitNotify /\ [][NextNotify]_vars

\* the positions in the history of the transport calls
TransportCalls == CallsOf("client.publish") \cup CallsOf("publish.single")

\* C24: every notification that passed the cooldown check has made exactly one
\* transport call once its publish is over, and none before: the step that ends the
\* publish adds one call to the history, a publish on the session or a one-shot
\* publish, and no other step adds a call, however the callbacks flip the connected
\* flag between the detector's test of it and the client's
C24_OneTransportCallPerNotification ==
    /\ [](Cardinality(TransportCalls) =
             Len(attempts) - (IF pc = "publish" THEN 1 ELSE 0))
    /\ [][/\ (pc = "publish" /\ pc' # "publish") =>
                /\ Len(trace') = Len(trace) + 1
                /\ trace'[Len(trace')].op \in {"client.publish", "publish.single"}
          /\ (pc # "publish" \/ pc' = "publish") => trace' = trace]_vars

\* the detector found its client connected and called its publish(); the connection
\* was lost before the client tested the flag, and the client made the one-shot
\* publish; this was the second notification
C24_Witness ==
    /\ pc = "sleep"
    /\ Len(attempts) = 2 /\ Len(trace) = 2
    /\ ~call.fresh
    /\ trace[1].op = "client.publish"
    /\ trace[2].op = "publish.single"

(***************************************************************************)
(* SpecClient: publish() called with every combination of arguments, on a  *)
(* client in every state connect() can leave it in and on the fresh client *)
(* of the send_notification helper, while the callbacks run.               *)
(***************************************************************************)
Topics == {"None", "home/other"}

\* publish(message, topic=None, qos=1, retain=False) on this client, and
\* send_notification(message, topic=None): MQTTClient().publish(message, topic)
PublishArgs ==
    [fresh : {FALSE}, topic : Topics, qos : {0, 1, 2}, retain : BOOLEAN]
    \cup [fresh : {TRUE}, topic : Topics, qos : {DefaultQos}, retain : {FALSE}]

\* a caller enters publish()
CallPublish ==
    /\ pc \in {"idle", "after_disconnect"}
    /\ Len(trace) < MaxCalls
    /\ \E c \in PublishArgs : call' = c
    /\ publish_result' = "none"
    /\ pc' = "publish"
    /\ UNCHANGED <<utilVars, bufVars, detVars, lifeVars, client, connected, loop_running, timeout,
                   connect_result, connect_log, ack, now, trace>>

\* a client that was created and never connected, or one that connect() returned on:
\* with a session, after the opening raised, or after the timeout
InitClient ==
    \E c \in {"new", "session", "raised", "timeout"} :
        /\ pc = "idle"
        /\ running = FALSE /\ model = FALSE /\ audio = "None" /\ stream = "None"
        /\ mqtt_client = FALSE /\ start_result = "none"
        /\ was_running = FALSE /\ signal_seen = "none"
        /\ audio_buffer = <<>> /\ buffer_index = 0 /\ audio_chunk = <<>> /\ written = <<>>
        /\ total_written = 0
        /\ analysis = [is_detected |-> FALSE, probability |-> 0]
        /\ analysis_failed = FALSE
        /\ consecutive_detections = 0 /\ last_detection_time = 0
        /\ last_notification_time = 0
        /\ run_length = 0 /\ run_time = 0 /\ attempts = <<>>
        /\ client = (c # "new")
        /\ connected = (c = "session")
        /\ loop_running = (c \in {"session", "timeout"})
        /\ timeout = IF c \in {"session", "timeout"} THEN StartTime ELSE 0
        /\ connect_result = (IF c = "new" THEN "none" ELSE Returned(c = "session"))
        /\ connect_log = (IF c \in {"raised", "timeout"} THEN c ELSE "none")
        /\ ack = IF c = "session" THEN "in_time" ELSE "none"
        /\ call = NoCall
        /\ publish_result = "none"
        /\ now = StartTime /\ trace = <<>>
        /\ NoTraining

\* a caller enters disconnect()
CallDisconnect ==
    /\ pc \in {"idle", "after_disconnect"}
    /\ Len(trace) < MaxCalls
    /\ pc' = "disconnect"
    /\ UNCHANGED <<utilVars, bufVars, detVars, lifeVars, mqttVars, now, trace>>

\* the body of disconnect(): loop_stop() and disconnect() on the handle if there is
\* a handle and the connected flag is true; the flag itself is left as it is
Disconnect(next) ==
    /\ pc = "disconnect"
    /\ trace' = trace \o DisconnectCalls
    /\ loop_running' = IF client /\ connected THEN FALSE ELSE loop_running
    /\ pc' = next
    /\ UNCHANGED <<utilVars, bufVars, detVars, lifeVars, client, connected, timeout,
                   connect_result, connect_log, ack, call, publish_result, now>>

NextClient ==
    \/ CallPublish
    \/ Publish("idle")
    \/ CallDisconnect
    \/ Disconnect("after_disconnect")
    \/ OnConnect
    \/ OnDisconnect

SpecClient == InitClient /\ [][NextClient]_vars

\* C11: disconnect() on a client with a handle and a true connected flag calls
\* loop_stop() and then disconnect() on the handle, and the network loop is stopped;
\* on a client without a handle or with a false flag it makes no library call and
\* leaves the state of the client as it is, however often it is called
C11_DisconnectOnlyWhenConnected ==
    [][(pc = "disconnect" /\ pc' # "disconnect")
       => IF client /\ connected
          THEN /\ Len(trace') = Len(trace) + 2
               /\ SubSeq(trace', 1, Len(trace)) = trace
               /\ trace'[Len(trace) + 1].op = "client.loop_stop"
               /\ trace'[Len(trace) + 2].op = "client.disconnect"
               /\ ~loop_running'
               /\ UNCHANGED <<client, connected>>
          ELSE UNCHANGED <<trace, client, connected, loop_running, timeout,
                           connect_result, connect_log, call, publish_result>>]_vars

\* disconnect() returned without a library call on a client whose connect timed out:
\* the network loop still runs
C11_Witness ==
    /\ pc = "after_disconnect"
    /\ client /\ ~connected /\ loop_running
    /\ connect_log = "timeout"
    /\ trace = <<>>

\* C12: publish() always returns; it returns failure exactly when the transport
\* call it made, on the session or one-shot, raised, and success otherwise; the
\* handle and the connected flag are as they were
C12_PublishContainsErrors ==
    [][(pc = "publish" /\ pc' # "publish")
       => /\ pc' = "idle"
          /\ Len(trace') = Len(trace) + 1
          /\ LET e == trace'[Len(trace')] IN
                /\ e.op = (IF ~call.fresh /\ client /\ connected
                           THEN "client.publish" ELSE "publish.single")
                /\ publish_result' = (IF e.ok THEN "True" ELSE "False")
          /\ UNCHANGED <<client, connected, loop_running>>]_vars

\* a publish on the live session raised: publish() returned failure and the client
\* still has its handle and its flag
C12_Witness ==
    /\ pc = "idle"
    /\ trace # <<>>
    /\ trace[Len(trace)].op = "client.publish" /\ ~trace[Len(trace)].ok
    /\ publish_result = "False"
    /\ client /\ connected

\* C4: a publish() on a client without a handle or with the connected flag false
\* makes exactly one one-shot publish, with the override topic or else the configured
\* one and with the QoS and the retain flag of the call, and returns success exactly
\* when that publish did not fail
C4_FallbackIsOneShot ==
    [][(/\ pc = "publish" /\ pc' # "publish"
        /\ (call.fresh \/ ~client \/ ~connected))
       => /\ Len(trace') = Len(trace) + 1
          /\ LET e == trace'[Len(trace')] IN
                /\ e.op = "publish.single"
                /\ e.topic = (IF call.topic = "None" THEN "home/doorbell/detect"
                              ELSE call.topic)
                /\ e.qos = call.qos
                /\ e.retain = call.retain
                /\ publish_result' = (IF e.ok THEN "True" ELSE "False")]_vars

\* after the session was lost, a call with an override topic, QoS 2 and retain went
\* through the one-shot publish, which failed
C4_Witness ==
    /\ pc = "idle"
    /\ client /\ ~connected /\ connect_result = "True"
    /\ trace # <<>>
    /\ LET e == trace[Len(trace)] IN
          /\ e.op = "publish.single" /\ e.topic = "home/other"
          /\ e.qos = 2 /\ e.retain /\ ~e.ok
    /\ publish_result = "False"

(***************************************************************************)
(* SpecCancel: the processing loop, its cleanup and the signal handler,    *)
(* with a main thread that keeps taking steps (a blocking read returns, a  *)
(* chunk or an error).                                                     *)
(***************************************************************************)
InitCancel == \E conn \in BOOLEAN : Processing(conn)

NextCancel ==
    \/ LoopCheck
    \/ ReadChunk(LoudChunks)
    \/ ReadFails
    \/ AnalyzeAudio(Outcomes)
    \/ SendNotification
    \/ Publish("sleep")
    \/ Sleep
    \/ Cleanup
    \/ Return
    \/ SignalHandler

\* the steps of the main thread
MainThread ==
    \/ LoopCheck
    \/ ReadChunk(LoudChunks)
    \/ ReadFails
    \/ AnalyzeAudio(Outcomes)
    \/ SendNotification
    \/ Publish("sleep")
    \/ Sleep
    \/ Cleanup
    \/ Return

SpecCancel == InitCancel /\ [][NextCancel]_vars /\ WF_vars(MainThread)

\* C7: a signal handled while the loop runs changes the running flag and nothing
\* else; once the flag is false the loop starts no read (only a read already begun
\* completes, with the rest of its iteration); and the detector then runs cleanup and
\* start() returns
C7_CooperativeCancellation ==
    /\ [][(running /\ ~running')
            => UNCHANGED <<pc, bufVars, detVars, model, audio, stream, mqtt_client,
                           start_result, was_running, mqttVars, now, trace>>]_vars
    /\ [][(~running /\ pc # "read") => pc' # "read"]_vars
    /\ (signal_seen = "running"
          ~> (/\ pc = "done" /\ start_result = "True"
              /\ stream = "closed" /\ audio = "terminated"
              /\ CallsOf("mqtt_client.disconnect") # {}))

\* start() returned after a signal that arrived during the analysis of a chunk, whose
\* iteration went on to publish a notification
C7_Witness ==
    /\ pc = "done"
    /\ signal_seen = "running"
    /\ ~running
    /\ CallsOf("publish.single") \cup CallsOf("client.publish") # {}

(***************************************************************************)
(* SpecConnect: connect() as start() calls it, with the callbacks and a    *)
(* clock that keeps running until MaxLate seconds after the deadline.      *)
(***************************************************************************)
\* initialize_mqtt has created the client and calls connect()
InitConnect ==
    /\ pc = "connect"
    /\ running = FALSE /\ model = TRUE /\ audio = "live" /\ stream = "open"
    /\ mqtt_client = TRUE /\ start_result = "none"
    /\ was_running = FALSE /\ signal_seen = "none"
    /\ audio_buffer = <<>> /\ buffer_index = 0 /\ audio_chunk = <<>> /\ written = <<>>
    /\ total_written = 0
    /\ analysis = [is_detected |-> FALSE, probability |-> 0]
    /\ analysis_failed = FALSE
    /\ consecutive_detections = 0 /\ last_detection_time = 0
    /\ last_notification_time = 0
    /\ run_length = 0 /\ run_time = 0 /\ attempts = <<>>
    /\ client = FALSE /\ connected = FALSE /\ loop_running = FALSE
    /\ timeout = 0 /\ connect_result = "none" /\ connect_log = "none" /\ ack = "none"
    /\ call = NoCall
    /\ publish_result = "none"
    /\ now = StartTime /\ trace = <<>>
    /\ NoTraining

\* time.time() advances
ConnectClock ==
    Tick(IF pc = "connect" THEN StartTime + MaxLate ELSE timeout + MaxLate)

NextConnect ==
    \/ ConnectOpen("set_running")
    \/ ConnectPoll
    \/ ConnectSleep
    \/ ConnectReturn("set_running")
    \/ OnConnect
    \/ OnDisconnect
    \/ ConnectClock

\* the steps of the thread that called connect()
ConnectThread ==
    \/ ConnectOpen("set_running")
    \/ ConnectPoll
    \/ ConnectSleep
    \/ ConnectReturn("set_running")

SpecConnect ==
    InitConnect /\ [][NextConnect]_vars /\ WF_vars(ConnectThread) /\ WF_vars(ConnectClock)

\* C10 as stated: connect() returns success only if the acknowledgment arrived by
\* the deadline, and failure if opening the connection raised
C10_SuccessOnlyByDeadline ==
    pc = "set_running" =>
        /\ connect_result = "True" => ack = "in_time"
        /\ connect_log = "raised" => connect_result = "False"

\* C10: connect() always returns; it returns success only if an acknowledgment with
\* result code 0 arrived before it returned, by the deadline or after it; it returns
\* failure if none arrived before it returned or if opening the connection raised;
\* and without a raise it returns failure before the deadline only if the flag was
\* set and cleared again
C10_BoundedConnect ==
    /\ <>(pc = "set_running")
    /\ [](pc = "set_running" =>
            /\ connect_result \in {"True", "False"}
            /\ connect_result = "True" => ack # "none" /\ connect_log = "none"
            /\ ack = "none" => connect_result = "False"
            /\ connect_log = "raised" => connect_result = "False" /\ ack = "none"
            /\ connect_log = "timeout" =>
                  /\ connect_result = "False"
                  /\ now >= timeout \/ ack # "none")
    /\ [][(pc = "poll" /\ pc' = "poll_sleep") => (~connected /\ now < timeout)]_vars

\* connect() returned success on an acknowledgment that arrived after the deadline
C10_Witness ==
    /\ pc = "set_running"
    /\ connect_result = "True"
    /\ ack = "late"
    /\ now > timeout

(***************************************************************************)
(* The training utilities: get_segments.                                   *)
(***************************************************************************)
\* the sample values of the signals given to the training utilities
Tones == {0, 1}

\* the Python slice s[i:j] of a sequence, for 0 <= i
Slice(s, i, j) == SubSeq(s, i + 1, Min(j, Len(s)))

\* mutant: the range stops one offset early
RangeStop_Early(len, seg) == len - seg

\* the stop of range(0, len(audio) - segment_samples + 1, hop_samples)
RangeStop(len, seg) == len - seg + 1

\* mutant: the windows do not overlap
NextOffset_BySegment(i, seg, hop) == i + seg

\* the offset that follows i in the range
NextOffset(i, seg, hop) == i + hop

\* the loop of get_segments from offset i on: the slice at each offset of the range
\* is kept if it has the length of a segment
RECURSIVE SegmentsFrom(_, _, _, _)
SegmentsFrom(sig, seg, hop, i) ==
    IF i >= RangeStop(Len(sig), seg)
    THEN <<>>
    ELSE LET window == Slice(sig, i, i + seg) IN
         (IF Len(window) = seg THEN <<window>> ELSE <<>>)
         \o SegmentsFrom(sig, seg, hop, NextOffset(i, seg, hop))

GetSegments(sig, seg, hop) == SegmentsFrom(sig, seg, hop, 0)

\* get_segments(audio, segment_samples, hop_samples) is called and returns
CallGetSegments ==
    /\ pc = "get_segments"
    /\ segments' = GetSegments(audio_signal, segment_samples, hop_samples)
    /\ pc' = "returned"
    /\ UNCHANGED <<bufVars, detVars, lifeVars, mqttVars, audio_signal, segment_samples,
                   hop_samples, segment, augVars, featVars, mixVars, dataVars, now, trace>>

(***************************************************************************)
(* SpecSegments: get_segments on every signal of up to MaxSignal samples,  *)
(* with every segment length and hop up to MaxSegment and MaxHop.          *)
(***************************************************************************)
InitSegments ==
    /\ pc = "get_segments"
    /\ Created
    /\ audio_signal \in SeqsOf(Tones, 0, MaxSignal)
    /\ segment_samples \in 1..MaxSegment
    /\ hop_samples \in 1..MaxHop
    /\ segments = <<>>
    /\ segment = <<>> /\ NoAugment /\ NoFeatures /\ NoMixing /\ NoDataset

NextSegments == CallGetSegments

SpecSegments == InitSegments /\ [][NextSegments]_vars

\* C13: get_segments returns floor((L - S) / H) + 1 segments of a signal of L >= S
\* samples, and none of a signal shorter than one segment
C13_SegmentCount ==
    pc = "returned" =>
        Len(segments) = IF Len(audio_signal) >= segment_samples
                        THEN ((Len(audio_signal) - segment_samples) \div hop_samples) + 1
                        ELSE 0

\* a signal of 5 samples cut into segments of 2 with hop 2: two segments, and the
\* last sample is left over
C13_Witness ==
    /\ pc = "returned"
    /\ Len(audio_signal) = 5 /\ segment_samples = 2 /\ hop_samples = 2
    /\ Len(segments) = 2

\* C14: the k-th segment returned (k = 0, 1, ...) is the samples at positions k*H to
\* k*H + S - 1 of the signal, so every segment has S samples and lies within the
\* signal
C14_SegmentWindows ==
    pc = "returned" =>
        \A k \in 0..(Len(segments) - 1) :
            /\ Len(segments[k + 1]) = segment_samples
            /\ k * hop_samples + segment_samples <= Len(audio_signal)
            /\ \A j \in 1..segment_samples :
                  segments[k + 1][j] = audio_signal[k * hop_samples + j]

\* overlapping windows of a signal that is not constant
C14_Witness ==
    /\ pc = "returned"
    /\ audio_signal = <<0, 1, 1, 0, 1>>
    /\ segment_samples = 3 /\ hop_samples = 1
    /\ segments = <<(<<0, 1, 1>>), (<<1, 1, 0>>), (<<1, 0, 1>>)>>

(***************************************************************************)
(* The training utilities: apply_augmentations.  The values librosa and    *)
(* the random generator produce are not modelled: an array they return is  *)
(* any constant array of the length the operation gives it.                *)
(***************************************************************************)
\* the arrays of n samples a library operation may return
Arrays(n) == {[i \in 1..n |-> v] : v \in Tones}

\* librosa.effects.pitch_shift(segment, ...): an array as long as the segment
PitchShift(seg) == Arrays(Len(seg))

\* librosa.effects.time_stretch(segment, rate=stretch_factor): an array whose length
\* is the length of the segment over the rate
TimeStretch(seg) ==
    UNION {Arrays(n) : n \in {m \in 0..(Len(seg) + MaxStretch) : m >= Len(seg) - MaxStretch}}

\* segment + noise_factor * np.random.randn(len(segment))
AddNoise(seg) == Arrays(Len(seg))

\* segment * volume_factor
Gain(seg) == Arrays(Len(seg))

\* mutant: a stretched array that is too short is not padded
FitLength_NoPad(a, n) == SubSeq(a, 1, Min(n, Len(a)))

\* np.pad(y_stretched, (0, segment_samples - len(y_stretched))) if it is shorter
\* than segment_samples, else y_stretched[:segment_samples]
FitLength(a, n) ==
    IF Len(a) < n
    THEN a \o [i \in 1..(n - Len(a)) |-> 0]
    ELSE SubSeq(a, 1, n)

\* an element of the returned list; `kind` names the operation that made it
Variant(kind, samples) == [kind |-> kind, samples |-> samples]

\* apply_augmentations(segment, sr, segment_samples, aug_config) is called and returns
ApplyAugmentations ==
    /\ pc = "apply_augmentations"
    /\ \E p \in PitchShift(segment), y_stretched \in TimeStretch(segment),
          n \in AddNoise(segment), g \in Gain(segment) :
          augmented' = <<Variant("pitch_shift", p),
                         Variant("time_stretch", FitLength(y_stretched, segment_samples)),
                         Variant("noise", n),
                         Variant("gain", g)>>
    /\ pc' = "returned"
    /\ UNCHANGED <<bufVars, detVars, lifeVars, mqttVars, segVars, segment_samples,
                   segment, featVars, mixVars, dataVars, now, trace>>

(***************************************************************************)
(* SpecAugment: apply_augmentations on every segment of 1..MaxSegment      *)
(* samples with every target length up to MaxSegment.                      *)
(***************************************************************************)
InitAugment ==
    /\ pc = "apply_augmentations"
    /\ Created
    /\ NoSegments /\ NoFeatures /\ NoMixing /\ NoDataset
    /\ segment \in SeqsOf(Tones, 1, MaxSegment)
    /\ segment_samples \in 1..MaxSegment
    /\ augmented = <<>>

NextAugment == ApplyAugmentations

SpecAugment == InitAugment /\ [][NextAugment]_vars

\* C18 as stated: for any segment and any target length, the 4 variants all have
\* the target length
C18_AllVariantsHaveTargetLength ==
    pc = "returned" =>
        /\ Len(augmented) = 4
        /\ \A i \in 1..4 : Len(augmented[i].samples) = segment_samples

\* C18: apply_augmentations returns 4 variants in the order pitch shift, time
\* stretch, noise, gain; the time-stretch variant has the target length and the
\* other three have the length of the input segment, so all four have the target
\* length when the input segment has it
C18_VariantLengths ==
    pc = "returned" =>
        /\ Len(augmented) = 4
        /\ augmented[1].kind = "pitch_shift" /\ augmented[2].kind = "time_stretch"
        /\ augmented[3].kind = "noise" /\ augmented[4].kind = "gain"
        /\ Len(augmented[2].samples) = segment_samples
        /\ \A i \in {1, 3, 4} : Len(augmented[i].samples) = Len(segment)
        /\ Len(segment) = segment_samples =>
              \A i \in 1..4 : Len(augmented[i].samples) = segment_samples

\* a segment of the target length whose stretched version was one sample short and
\* was padded with a zero
C18_Witness ==
    /\ pc = "returned"
    /\ Len(segment) = 2 /\ segment_samples = 2
    /\ augmented[2].samples = <<1, 0>>
    /\ \A i \in 1..4 : Len(augmented[i].samples) = 2

(***************************************************************************)
(* The training utilities: extract_features.  A librosa feature is a       *)
(* matrix with one row per band or coefficient; the vector holds the mean  *)
(* and the standard deviation of each row, whose values are not modelled.  *)
(***************************************************************************)
\* n_bands=6 of the spectral contrast
n_bands == 6

\* librosa.feature.melspectrogram(..., n_mels=n_mels) and power_to_db: n_mels rows
MelRows(mels) == mels

\* librosa.feature.mfcc(S=mel_spec_db, n_mfcc=n_mfcc): the first n_mfcc coefficients
\* of the transform of the n_mels rows; librosa.feature.delta keeps the rows
MfccRows(mfcc, mels) == Min(mfcc, mels)

\* librosa.feature.spectral_contrast(..., n_bands=6): n_bands + 1 rows
ContrastRows == n_bands + 1

\* np.mean(m, axis=1) or np.std(m, axis=1) of the matrix named of, of n rows
RowStats(stat, of, n) == [i \in 1..n |-> [stat |-> stat, of |-> of, row |-> i]]

\* mutant: the standard deviation of the MFCC deltas is left out
FeatureVector_NoDeltaStd(mfcc, mels) ==
    RowStats("mean", "mel_spec_db", MelRows(mels))
    \o RowStats("std", "mel_spec_db", MelRows(mels))
    \o RowStats("mean", "mfcc", MfccRows(mfcc, mels))
    \o RowStats("std", "mfcc", MfccRows(mfcc, mels))
    \o RowStats("mean", "mfcc_delta", MfccRows(mfcc, mels))
    \o RowStats("mean", "spectral_contrast", ContrastRows)
    \o RowStats("std", "spectral_contrast", ContrastRows)
    \o RowStats("mean", "spectral_centroid", 1)
    \o RowStats("std", "spectral_centroid", 1)

\* feature_vector = np.concatenate([...])
FeatureVector(mfcc, mels) ==
    RowStats("mean", "mel_spec_db", MelRows(mels))
    \o RowStats("std", "mel_spec_db", MelRows(mels))
    \o RowStats("mean", "mfcc", MfccRows(mfcc, mels))
    \o RowStats("std", "mfcc", MfccRows(mfcc, mels))
    \o RowStats("mean", "mfcc_delta", MfccRows(mfcc, mels))
    \o RowStats("std", "mfcc_delta", MfccRows(mfcc, mels))
    \o RowStats("mean", "spectral_contrast", ContrastRows)
    \o RowStats("std", "spectral_contrast", ContrastRows)
    \o RowStats("mean", "spectral_centroid", 1)
    \o RowStats("std", "spectral_centroid", 1)

\* extract_features(audio, sample_rate, n_mfcc, n_mels, n_fft, hop_length) is called
\* on the segment and returns
ExtractFeatures ==
    /\ pc = "extract_features"
    /\ feature_vector' = FeatureVector(n_mfcc, n_mels)
    /\ pc' = "returned"
    /\ UNCHANGED <<bufVars, detVars, lifeVars, mqttVars, segVars, segment_samples,
                   segment, augVars, n_mfcc, n_mels, mixVars, dataVars, now, trace>>

(***************************************************************************)
(* SpecFeatures: extract_features on every segment of 1..MaxSegment        *)
(* samples, with the default and other numbers of coefficients and bands.  *)
(***************************************************************************)
MfccChoices == {13, 20, 40}
MelChoices == {26, 40, 64}

InitFeatures ==
    /\ pc = "extract_features"
    /\ Created
    /\ NoSegments /\ NoAugment /\ NoMixing /\ NoDataset
    /\ segment \in SeqsOf(Tones, 1, MaxSegment)
    /\ segment_samples = Len(segment)
    /\ n_mfcc \in MfccChoices
    /\ n_mels \in MelChoices
    /\ feature_vector = <<>>

NextFeatures == ExtractFeatures

SpecFeatures == InitFeatures /\ [][NextFeatures]_vars

max_iterations == 1000

\* extract_features(mixed, ...) of a doorbell segment mixed with a background one
MixedFeature == [kind |-> "mixed"]

\* mutant: the loop goes on while the count is at most the maximum
ContinueMixing_Inclusive ==
    /\ IF max_mixed_samples = <<>> THEN TRUE ELSE mixed_count <= max_mixed_samples[1]
    /\ iterations < max_iterations

\* while (max_mixed_samples is None or mixed_count < max_mixed_samples)
\*       and iterations < max_iterations:
ContinueMixing ==
    /\ IF max_mixed_samples = <<>> THEN TRUE ELSE mixed_count < max_mixed_samples[1]
    /\ iterations < max_iterations

\* generate_mixed_examples is entered: with an empty pool it warns and returns
GenerateMixedExamples(next) ==
    /\ pc = "generate_mixed"
    /\ mixed_features' = <<>>
    /\ mixed_count' = 0
    /\ iterations' = 0
    /\ pc' = IF doorbell_segments = <<>> \/ background_segments = <<>>
             THEN next ELSE "mix_loop"
    /\ UNCHANGED <<bufVars, detVars, lifeVars, mqttVars, segVars, segment_samples,
                   segment, augVars, featVars, doorbell_segments, background_segments,
                   max_mixed_samples, dataVars, now, trace>>

\* one iteration: two random choices, the mix, its features
MixIteration ==
    /\ pc = "mix_loop"
    /\ ContinueMixing
    /\ \E bg_segment \in 1..Len(background_segments), db_seg \in 1..Len(doorbell_segments) :
          mixed_features' = Append(mixed_features, MixedFeature)
    /\ mixed_count' = mixed_count + 1
    /\ iterations' = iterations + 1
    /\ UNCHANGED <<pc, bufVars, detVars, lifeVars, mqttVars, segVars, segment_samples,
                   segment, augVars, featVars, doorbell_segments, background_segments,
                   max_mixed_samples, dataVars, now, trace>>

\* return mixed_features, mixed_count
MixReturn(next) ==
    /\ pc = "mix_loop"
    /\ ~ContinueMixing
    /\ pc' = next
    /\ UNCHANGED <<bufVars, detVars, lifeVars, mqttVars, utilVars, now, trace>>

(***************************************************************************)
(* SpecMix: generate_mixed_examples on pools of 0..MaxPool segments, with  *)
(* no maximum and with maxima below, at and above the iteration cap.       *)
(***************************************************************************)
\* a pool of n segments
Pool(n) == [i \in 1..n |-> <<0, 1>>]

MaxMixedChoices == {<<>>, <<0>>, <<5>>, <<1000>>, <<1001>>}

InitMix ==
    /\ pc = "generate_mixed"
    /\ Created
    /\ NoSegments /\ NoAugment /\ NoFeatures /\ NoDataset
    /\ segment_samples = 2 /\ segment = <<>>
    /\ \E d, b \in 0..MaxPool :
          /\ doorbell_segments = Pool(d)
          /\ background_segments = Pool(b)
    /\ max_mixed_samples \in MaxMixedChoices
    /\ mixed_features = <<>> /\ mixed_count = 0 /\ iterations = 0

NextMix ==
    \/ GenerateMixedExamples("returned")
    \/ MixIteration
    \/ MixReturn("returned")

SpecMix == InitMix /\ [][NextMix]_vars /\ WF_vars(NextMix)

\* C15: generate_mixed_examples returns; the count it returns is the number of
\* vectors it returns; with both pools non-empty that is min(max_mixed_samples, 1000)
\* when a maximum is given and 1000 when none is; with an empty pool it is 0
C15_MixedCount ==
    /\ <>(pc = "returned")
    /\ [](pc = "returned" =>
            /\ mixed_count = Len(mixed_features)
            /\ (doorbell_segments # <<>> /\ background_segments # <<>>) =>
                  mixed_count = IF max_mixed_samples = <<>> THEN 1000
                                ELSE IF max_mixed_samples[1] < 1000
                                     THEN max_mixed_samples[1] ELSE 1000
            /\ (doorbell_segments = <<>> \/ background_segments = <<>>) =>
                  mixed_count = 0)

\* 5 examples were asked of two non-empty pools and 5 were returned
C15_Witness ==
    /\ pc = "returned"
    /\ doorbell_segments # <<>> /\ background_segments # <<>>
    /\ max_mixed_samples = <<5>>
    /\ mixed_count = 5 /\ Len(mixed_features) = 5

(***************************************************************************)
(* The training utilities: process_dataset, one action per phase.  A       *)
(* feature vector is a token naming what it was extracted from; the split  *)
(* is in percent.                                                          *)
(***************************************************************************)
\* the permutations of 1..n: what random.shuffle can do to a list of n elements
Perms(n) == {f \in [1..n -> 1..n] : \A i, j \in 1..n : f[i] = f[j] => i = j}

\* the concatenation of a sequence of sequences
RECURSIVE Flatten(_)
Flatten(ss) == IF ss = <<>> THEN <<>> ELSE Head(ss) \o Flatten(Tail(ss))

\* an audio file of a background directory: librosa.load returns y, or raises
File(y) == [ok |-> TRUE, y |-> y]
BadFile == [ok |-> FALSE, y |-> <<>>]

\* the segments of one file; an error while processing it is printed and the file
\* contributes nothing
FileSegments(f, seg, hop) == IF f.ok THEN GetSegments(f.y, seg, hop) ELSE <<>>

\* all_bg_segments after the loop over the directories and their files
GatherSegments(dirs, seg, hop) ==
    Flatten([k \in 1..Len(Flatten(dirs)) |-> FileSegments(Flatten(dirs)[k], seg, hop)])

\* all_bg_segments[:max_background_samples] if a maximum is given
CapSegments(all, max) == IF max = <<>> THEN all ELSE Slice(all, 0, max[1])

\* split_index = int(len(all_bg_segments) * background_mix_split)
SplitIndex(n, pct) == (n * pct) \div 100

\* mutant: the negatives are the segments before the split index
BgForNegatives_Front(all, k) == Slice(all, 0, k)

\* bg_for_negatives = all_bg_segments[split_index:]
BgForNegatives(all, k) == Slice(all, k, Len(all))

\* mutant: the whole pool is handed to the mixing
BgForMixing_All(all, k) == all

\* bg_for_mixing = all_bg_segments[:split_index]
BgForMixing(all, k) == Slice(all, 0, k)

\* the vector of a doorbell segment: its features, averaged with those of its 4
\* augmentations if augment is set
DoorbellFeature(seg, aug) == [kind |-> "doorbell", of |-> seg, averaged |-> aug]

\* the vector of a background segment
BackgroundFeature(seg) == [kind |-> "background", of |-> seg, averaged |-> FALSE]

\* mutant: a recording that yields no segment is accepted
ReferenceUsable_PathOnly(exists, sig, seg, hop) == exists

\* neither ValueError is raised: the path exists and the recording yields a segment
ReferenceUsable(exists, sig, seg, hop) ==
    exists /\ GetSegments(sig, seg, hop) # <<>>

\* process_dataset up to the loop over the doorbell segments
LoadReference ==
    /\ pc = "process_dataset"
    /\ IF ReferenceUsable(path_exists, audio_signal, segment_samples, hop_samples)
       THEN /\ doorbell_segments' = GetSegments(audio_signal, segment_samples, hop_samples)
            /\ pc' = "positives"
            /\ UNCHANGED dataset_result
       ELSE /\ dataset_result' = "ValueError"
            /\ pc' = "raised"
            /\ UNCHANGED doorbell_segments
    /\ UNCHANGED <<bufVars, detVars, lifeVars, mqttVars, segVars, segment_samples,
                   segment, augVars, featVars, background_segments, max_mixed_samples,
                   mixed_features, mixed_count, iterations, path_exists, audio_dirs,
                   augment, mix_background, max_background_samples,
                   background_mix_split, all_bg_segments, features, labels,
                   dirs_listed, now, trace>>

\* for segment in doorbell_segments: features.append(seg_feat); labels.append(1)
AddPositives ==
    /\ pc = "positives"
    /\ features' = features \o [i \in 1..Len(doorbell_segments) |->
                                   DoorbellFeature(doorbell_segments[i], augment)]
    /\ labels' = labels \o [i \in 1..Len(doorbell_segments) |-> 1]
    /\ pc' = "background"
    /\ UNCHANGED <<bufVars, detVars, lifeVars, mqttVars, segVars, segment_samples,
                   segment, augVars, featVars, mixVars, path_exists, audio_dirs,
                   augment, mix_background, max_background_samples,
                   background_mix_split, all_bg_segments, dirs_listed, dataset_result,
                   now, trace>>

\* the directories are listed and their files segmented; the list is capped and
\* shuffled
GatherBackground ==
    /\ pc = "background"
    /\ dirs_listed' = dirs_listed + Len(audio_dirs)
    /\ LET capped == CapSegments(GatherSegments(audio_dirs, segment_samples, hop_samples),
                                 max_background_samples)
       IN  \E f \in Perms(Len(capped)) :
              all_bg_segments' = [i \in 1..Len(capped) |-> capped[f[i]]]
    /\ pc' = "negatives"
    /\ UNCHANGED <<bufVars, detVars, lifeVars, mqttVars, segVars, segment_samples,
                   segment, augVars, featVars, mixVars, path_exists, audio_dirs,
                   augment, mix_background, max_background_samples,
                   background_mix_split, features, labels, dataset_result, now, trace>>

\* for seg in bg_for_negatives: features.append(feat); labels.append(0); then, if
\* mix_background, generate_mixed_examples(doorbell_segments, bg_for_mixing, ...)
AddNegatives ==
    /\ pc = "negatives"
    /\ LET k    == SplitIndex(Len(all_bg_segments), background_mix_split)
           negs == BgForNegatives(all_bg_segments, k)
       IN  /\ features' = features \o [i \in 1..Len(negs) |-> BackgroundFeature(negs[i])]
           /\ labels' = labels \o [i \in 1..Len(negs) |-> 0]
           /\ IF mix_background
              THEN /\ background_segments' = BgForMixing(all_bg_segments, k)
                   /\ pc' = "generate_mixed"
              ELSE /\ pc' = "report"
                   /\ UNCHANGED background_segments
    /\ UNCHANGED <<bufVars, detVars, lifeVars, mqttVars, segVars, segment_samples,
                   segment, augVars, featVars, doorbell_segments, max_mixed_samples,
                   mixed_features, mixed_count, iterations, path_exists, audio_dirs,
                   augment, mix_background, max_background_samples,
                   background_mix_split, all_bg_segments, dirs_listed, dataset_result,
                   now, trace>>

\* for feat in mixed_feats: features.append(feat); labels.append(1)
AppendMixed ==
    /\ pc = "append_mixed"
    /\ features' = features \o mixed_features
    /\ labels' = labels \o [i \in 1..Len(mixed_features) |-> 1]
    /\ pc' = "report"
    /\ UNCHANGED <<bufVars, detVars, lifeVars, mqttVars, segVars, segment_samples,
                   segment, augVars, featVars, mixVars, path_exists, audio_dirs,
                   augment, mix_background, max_background_samples,
                   background_mix_split, all_bg_segments, dirs_listed, dataset_result,
                   now, trace>>

\* the number of labels equal to v
CountLabels(ls, v) == Cardinality({i \in 1..Len(ls) : ls[i] = v})

\* the counts and their ratio are printed (a division by the number of positives)
\* and the arrays returned
Report ==
    /\ pc = "report"
    /\ IF CountLabels(labels, 1) = 0
       THEN dataset_result' = "ZeroDivisionError" /\ pc' = "raised"
       ELSE dataset_result' = "returned" /\ pc' = "returned"
    /\ UNCHANGED <<bufVars, detVars, lifeVars, mqttVars, segVars, segment_samples,
                   segment, augVars, featVars, mixVars, path_exists, audio_dirs,
                   augment, mix_background, max_background_samples,
                   background_mix_split, all_bg_segments, features, labels,
                   dirs_listed, now, trace>>

(***************************************************************************)
(* SpecDataset: process_dataset with segments of 2 samples and hop 1, on   *)
(* reference recordings of 1..MaxDoorbell samples (0 and more segments),   *)
(* existing or not, and on no, one and two background directories.         *)
(***************************************************************************)
DoorbellSignals == {[i \in 1..n |-> i % 2] : n \in 1..MaxDoorbell}

DirChoices ==
    { <<>>,
      << <<BadFile, File(<<0, 1, 1>>)>> >>,
      << <<File(<<0, 1, 1>>)>>, <<File(<<1, 0>>), BadFile, File(<<1>>)>> >> }

InitDataset ==
    /\ pc = "process_dataset"
    /\ Created
    /\ NoAugment /\ NoFeatures
    /\ segment = <<>> /\ segments = <<>>
    /\ segment_samples = 2 /\ hop_samples = 1
    /\ doorbell_segments = <<>> /\ background_segments = <<>>
    /\ max_mixed_samples \in {<<>>, <<2>>}
    /\ mixed_features = <<>> /\ mixed_count = 0 /\ iterations = 0
    /\ path_exists \in BOOLEAN
    /\ audio_signal \in DoorbellSignals
    /\ audio_dirs \in DirChoices
    /\ augment \in BOOLEAN
    /\ mix_background \in BOOLEAN
    /\ max_background_samples \in {<<>>, <<2>>}
    /\ background_mix_split \in {0, 50, 100}
    /\ all_bg_segments = <<>> /\ features = <<>> /\ labels = <<>>
    /\ dirs_listed = 0 /\ dataset_result = "none"

NextDataset ==
    \/ LoadReference
    \/ AddPositives
    \/ GatherBackground
    \/ AddNegatives
    \/ GenerateMixedExamples("append_mixed")
    \/ MixIteration
    \/ MixReturn("append_mixed")
    \/ AppendMixed
    \/ Report

SpecDataset == InitDataset /\ [][NextDataset]_vars

\* the number of doorbell segments of the reference recording
DoorbellCount == Len(GetSegments(audio_signal, segment_samples, hop_samples))

\* n: the size of the background pool, capped
PoolCount ==
    LET P == Len(GatherSegments(audio_dirs, segment_samples, hop_samples))
    IN  IF max_background_samples = <<>> THEN P
        ELSE IF P < max_background_samples[1] THEN P ELSE max_background_samples[1]

\* the number of negatives the claim gives
NegativeCount == PoolCount - ((PoolCount * background_mix_split) \div 100)

\* C16: a dataset returned for D >= 1 doorbell segments and a capped pool of n
\* background segments has D + M labels 1, M the number of mixed examples made
\* (none without mixing or with an empty mixing subset), and n - floor(n * split)
\* labels 0; it has as many labels as vectors, and the base positives, one per
\* doorbell segment, come first, then the negatives, then the mixed positives
C16_LabelAccounting ==
    pc = "returned" =>
        LET D == DoorbellCount
            M == IF mix_background THEN mixed_count ELSE 0
        IN  /\ D >= 1
            /\ CountLabels(labels, 1) = D + M
            /\ CountLabels(labels, 0) = NegativeCount
            /\ (~mix_background \/ PoolCount - NegativeCount = 0) => M = 0
            /\ Len(labels) = Len(features)
            /\ Len(labels) = D + NegativeCount + M
            /\ \A i \in 1..Len(labels) :
                  /\ i <= D =>
                        /\ labels[i] = 1
                        /\ features[i].kind = "doorbell"
                        /\ features[i].of = doorbell_segments[i]
                  /\ (D < i /\ i <= D + NegativeCount) =>
                        labels[i] = 0 /\ features[i].kind = "background"
                  /\ D + NegativeCount < i =>
                        labels[i] = 1 /\ features[i].kind = "mixed"

\* 2 doorbell segments with augmentation, 3 background segments split in half (1
\* for mixing, 2 negatives) and 2 mixed examples: 4 positives, 2 negatives
C16_Witness ==
    /\ pc = "returned"
    /\ Len(doorbell_segments) = 2 /\ augment /\ mix_background
    /\ max_mixed_samples = <<2>> /\ background_mix_split = 50
    /\ Len(all_bg_segments) = 3
    /\ labels = <<1, 1, 0, 0, 1, 1>>

\* C17: when the reference path does not exist or the recording yields no segment,
\* process_dataset raises ValueError, no directory has been listed by then and no
\* dataset is returned; it raises ValueError in no other case
C17_FailsFast ==
    /\ (pc \in {"raised", "returned"} /\ (~path_exists \/ DoorbellCount = 0)) =>
          /\ dataset_result = "ValueError"
          /\ pc = "raised"
          /\ dirs_listed = 0
          /\ features = <<>> /\ labels = <<>>
    /\ dataset_result = "ValueError" => (~path_exists \/ DoorbellCount = 0)
    /\ (~path_exists \/ DoorbellCount = 0) => dirs_listed = 0

\* the recording exists and is shorter than one segment, and there are directories
C17_Witness ==
    /\ pc = "raised"
    /\ path_exists /\ Len(audio_signal) = 1
    /\ audio_dirs # <<>>
    /\ dataset_result = "ValueError"

\* the background pool after the cap and before the shuffle
CappedPool ==
    CapSegments(GatherSegments(audio_dirs, segment_samples, hop_samples),
                max_background_samples)

\* the segments the label-0 vectors of the dataset were extracted from, in order
NegativeSegments ==
    LET idx == {i \in 1..Len(features) : features[i].kind = "background"}
        D   == Len(features) - Cardinality({i \in 1..Len(features) :
                                               features[i].kind # "doorbell"})
    IN  [j \in 1..Cardinality(idx) |-> features[D + j].of]

\* C22: once the pool was split, the shuffled pool is a rearrangement of the capped
\* pool of n segments, the segments handed to the mixing are its first
\* floor(n * split) segments and the segments labelled 0 are its remaining
\* n - floor(n * split) segments, in its order: the two subsets together are the
\* shuffled pool, and no segment of the pool (its segments differ pairwise here) is
\* in both
C22_SplitIsPartition ==
    (pc \notin {"process_dataset", "positives", "background", "negatives", "raised"}) =>
        LET n == Len(CappedPool)
            k == (n * background_mix_split) \div 100
            mixing == IF mix_background THEN background_segments
                      ELSE SubSeq(all_bg_segments, 1, k)
        IN  /\ Len(all_bg_segments) = n
            /\ \E f \in Perms(n) : \A i \in 1..n : all_bg_segments[i] = CappedPool[f[i]]
            /\ mixing = SubSeq(all_bg_segments, 1, k)
            /\ NegativeSegments = SubSeq(all_bg_segments, k + 1, n)
            /\ Len(mixing) = k /\ Len(NegativeSegments) = n - k
            /\ mixing \o NegativeSegments = all_bg_segments
            /\ \A i \in 1..Len(mixing) : \A j \in 1..Len(NegativeSegments) :
                  mixing[i] # NegativeSegments[j]
            /\ \A i \in 1..Len(labels) :
                  labels[i] = 0 <=> features[i].kind = "background"

\* a pool of 3 segments was shuffled out of its order and split in half: its first
\* segment went to the mixing, the other 2 were labelled 0
C22_Witness ==
    /\ pc = "returned"
    /\ mix_background /\ background_mix_split = 50
    /\ Len(all_bg_segments) = 3 /\ all_bg_segments # CappedPool
    /\ Len(background_segments) = 1
    /\ Len(NegativeSegments) = 2

=============================================================================
